---- MODULE Spec2Model ----
(***************************************************************************)
(* A model of openmdao.Model (Model.js): the client-side proxy that keeps  *)
(* a listener registry, a cache of the model snapshot and a type catalog,  *)
(* and talks to the server through asynchronous jQuery.ajax requests.      *)
(*                                                                         *)
(* JavaScript runs each handler to completion, so every public method and  *)
(* every response handler is one atomic action.  A request that has been   *)
(* sent and not answered is in the bag `pending`; it holds the closures     *)
(* (success, error) that jQuery will call.  `last` names the handler that  *)
(* ran in the last step and `trace` lists, in order, what that handler     *)
(* did that is visible outside the object: requests sent, callbacks,       *)
(* listeners and error handlers invoked, errors logged or thrown.          *)
(***************************************************************************)
EXTENDS Integers, Sequences, FiniteSets, Bags, TLC

VARIABLES callbacks, modelJSON, types, pending, last, trace

vars == <<callbacks, modelJSON, types, pending, last, trace>>

(***************************************************************************)
(* Bounds                                                                  *)
(***************************************************************************)
MaxListeners == 2
MaxPending == 1
MaxPathLen == 6
MaxPathnameLen == 3
MaxDepth == 3
MaxRegistry == 3
MaxRacing == 3

(***************************************************************************)
(* JavaScript values                                                       *)
(***************************************************************************)
Null == [null |-> 0]
Undefined == [undefined |-> 0]
Leaf(n) == [leaf |-> n]
Num(n) == [t |-> "number", v |-> n]
NotNum == [t |-> "undefined", v |-> 0]
NoData == [empty |-> TRUE]

\* typeof f == 'function', for a caller-supplied callback or error handler
FnKinds == {"function", "undefined"}

\* a string is the sequence of its characters
RECURSIVE SeqsUpTo(_, _)
SeqsUpTo(S, n) ==
    IF n = 0 THEN {<<>>}
    ELSE LET shorter == SeqsUpTo(S, n - 1)
         IN  shorter \cup {Append(s, c) : s \in {t \in shorter : Len(t) = n - 1}, c \in S}

(***************************************************************************)
(* Inputs.  File paths are strings over PathChars; object pathnames are    *)
(* strings over PathnameChars; a snapshot is a JSON tree whose objects     *)
(* have keys among SnapshotKeys and whose leaves are numbers.              *)
(***************************************************************************)
PathChars == {"p", "y", ".", "/", "\\"}
Paths == SeqsUpTo(PathChars, MaxPathLen)
\* the few paths the protocol specification works with
SomePaths == { <<"p", "/", "y", ".", "p", "y">>, <<"/", "p", ".", "p", "y">> }

PathnameChars == {"a", "."}
Pathnames == SeqsUpTo(PathnameChars, MaxPathnameLen)
SomePathnames == { <<>>, <<"a">>, <<"a", ".", "a">> }

StateKey == "py/state"
SnapshotKeys == {"a", StateKey}
Leaves == {Leaf(1)}

\* the trees of depth d or less in which an object has at most one child
\* that is itself an object
RECURSIVE Trees(_)
Trees(d) ==
    IF d = 0 THEN Leaves
    ELSE LET sub == Trees(d - 1) \ Leaves
             flat == UNION { [K -> Leaves] : K \in SUBSET SnapshotKeys }
         IN  Leaves \cup flat
                 \cup UNION { { [t EXCEPT ![k] = child] : k \in DOMAIN t, child \in sub } :
                              t \in flat }

\* a model.json response is a JSON object
Snapshots == { t \in Trees(MaxDepth) : t \notin Leaves }
SomeSnapshots == { ("a" :> Leaf(1)), ("a" :> (StateKey :> ("a" :> Leaf(1)))) }

\* jQuery("Types", xml): the catalog extracted from a 'types' response
Catalogs == { [catalog |-> 1] }
Texts == { [text |-> 1] }

SomeCommand == <<"r", "u", "n">>
SomeName == <<"n">>
SomeFolder == <<"d">>
SomeContents == [text |-> 2]
SomeType == <<"T">>
Coordinates == { Num(0), NotNum }

(***************************************************************************)
(* String functions of the JavaScript library, as the code uses them       *)
(***************************************************************************)
\* s.replace(/c/g, d) for a one-character pattern c
RECURSIVE ReplaceChar(_, _, _)
ReplaceChar(s, c, d) ==
    IF s = <<>> THEN <<>>
    ELSE (IF Head(s) = c THEN d ELSE <<Head(s)>>) \o ReplaceChar(Tail(s), c, d)

\* s.replace(/.py/g, ''): the dot is unescaped, so it stands for any
\* character but a line terminator; matches are taken left to right
RECURSIVE ReplaceDotPy(_)
ReplaceDotPy(s) ==
    IF s = <<>> THEN <<>>
    ELSE IF Len(s) >= 3 /\ s[1] # "\n" /\ s[2] = "p" /\ s[3] = "y"
         THEN ReplaceDotPy(SubSeq(s, 4, Len(s)))
         ELSE <<Head(s)>> \o ReplaceDotPy(Tail(s))

\* s.split('.')
RECURSIVE SplitFrom(_, _)
SplitFrom(s, cur) ==
    IF s = <<>> THEN <<cur>>
    ELSE IF Head(s) = "." THEN <<cur>> \o SplitFrom(Tail(s), <<>>)
         ELSE SplitFrom(Tail(s), Append(cur, Head(s)))

split(s) == SplitFrom(s, <<>>)

\* importFile, lines 262-265: the command it builds
ImportCommand(filepath) ==
    LET path == ReplaceChar(ReplaceChar(ReplaceDotPy(filepath), "\\", <<".">>), "/", <<".">>)
    IN  <<"f", "r", "o", "m", " ">> \o path \o <<" ", "i", "m", "p", "o", "r", "t", " ", "*">>

\* the leading '/' removed with the backslashes left as they are
ExecPathKeepingBackslashes(filepath) ==
    IF filepath # <<>> /\ filepath[1] = "/" THEN SubSeq(filepath, 2, Len(filepath))
    ELSE filepath

\* execFile, lines 275-277: the relative path it sends
ExecPath(filepath) ==
    LET path == ReplaceChar(filepath, "\\", <<"/">>)
    IN  IF path # <<>> /\ path[1] = "/" THEN SubSeq(path, 2, Len(path)) ELSE path

\* newFile, line 228: the stub contents
NewFileContents(name) ==
    <<"\"", "\"", "\"", "\n", " ", " ", " ">> \o name \o <<"\n", "\"", "\"", "\"", "\n", "\n">>

(***************************************************************************)
(* Property access on JSON values                                          *)
(***************************************************************************)
Thrown == [thrown |-> 0]

IsObject(v) == DOMAIN v \cap {"leaf", "null", "undefined", "thrown"} = {}

\* obj[key] for a value that is neither null nor undefined
Property(obj, key) ==
    IF IsObject(obj) /\ key \in DOMAIN obj THEN obj[key] ELSE Undefined

\* the property a token names: the snapshot's keys are single characters
\* and "py/state", and no token holds a '/'
TokenProperty(obj, token) ==
    IF Len(token) = 1 THEN Property(obj, token[1]) ELSE Undefined

\* the walk looking under "py/state" before the node itself
WalkStepStateFirst(obj, token) ==
    IF obj \in {Null, Undefined} THEN Thrown
    ELSE IF TokenProperty(Property(obj, StateKey), token) # Undefined
         THEN TokenProperty(Property(obj, StateKey), token)
         ELSE TokenProperty(obj, token)

\* getObject, lines 96-99: one step of the walk; reading a property of
\* null or undefined throws a TypeError
WalkStep(obj, token) ==
    IF obj \in {Null, Undefined} THEN Thrown
    ELSE IF TokenProperty(obj, token) # Undefined THEN TokenProperty(obj, token)
    ELSE IF Property(obj, StateKey) \in {Null, Undefined} THEN Thrown
    ELSE TokenProperty(Property(obj, StateKey), token)

\* getObject, lines 95-100: the loop over the tokens
RECURSIVE Walk(_, _, _)
Walk(obj, tokens, i) ==
    IF obj = Thrown \/ i > Len(tokens) THEN obj
    ELSE Walk(WalkStep(obj, tokens[i]), tokens, i + 1)

(***************************************************************************)
(* What a handler does that is visible outside the object                  *)
(***************************************************************************)
Ajax(url, type, data) == [ev |-> "ajax", url |-> url, type |-> type, data |-> data]
Callback(arg) == [ev |-> "callback", arg |-> arg]
Listener(i) == [ev |-> "listener", index |-> i, args |-> <<>>]
ErrorHandler == [ev |-> "errorHandler"]
LogError == [ev |-> "debug.error"]
Throw == [ev |-> "throw"]
Popup == [ev |-> "popup"]

\* the closures jQuery keeps for a request that has been sent: `success`
\* is its success handler, `callback` the caller's callback that handler
\* closes over, `error` the error option
Request(success, callback, error) ==
    [success |-> success, callback |-> callback, error |-> error]

\* the private state of the object at the start of a handler
Here ==
    [callbacks |-> callbacks, modelJSON |-> modelJSON, types |-> types,
     pending |-> pending, trace |-> <<>>]

Did(s, e) == [s EXCEPT !.trace = Append(@, e)]

\* jQuery.ajax(options)
ajax(s, request, url, type, data) ==
    [s EXCEPT !.pending = @ (+) SetToBag({request}), !.trace = Append(@, Ajax(url, type, data))]

(***************************************************************************)
(* Listeners.  A registry entry is "fn" (a function), "adder" (a function  *)
(* that registers one more listener when it is called, while the registry  *)
(* has room) or "notfn" (not a function).                                  *)
(***************************************************************************)
ListenerKinds == {"fn", "adder", "notfn"}

IsFunction(l) == l \in {"fn", "adder"}

\* only functions registered
addListenerFunctionsOnly(s, callback) ==
    IF IsFunction(callback) THEN [s EXCEPT !.callbacks = Append(@, callback)] ELSE s

\* line 30
addListener(s, callback) == [s EXCEPT !.callbacks = Append(@, callback)]

\* line 38: callbacks[i]()
CallListener(s, i) ==
    LET called == Did(s, Listener(i))
    IN  IF s.callbacks[i] = "adder" /\ Len(s.callbacks) < MaxListeners
        THEN addListener(called, "fn")
        ELSE called

\* the loop given up at the first entry that is not a function
RECURSIVE ListenersUntilNonFunction(_, _)
ListenersUntilNonFunction(s, i) ==
    IF i > Len(s.callbacks) THEN s
    ELSE IF IsFunction(s.callbacks[i])
         THEN ListenersUntilNonFunction(CallListener(s, i), i + 1)
         ELSE Did(s, LogError)

\* lines 36-40: the loop reads callbacks.length on every iteration
RECURSIVE ListenersFrom(_, _)
ListenersFrom(s, i) ==
    IF i > Len(s.callbacks) THEN s
    ELSE IF IsFunction(s.callbacks[i])
         THEN ListenersFrom(CallListener(s, i), i + 1)
         ELSE ListenersFrom(Did(s, LogError), i + 1)

\* the loop started one entry late
updateListenersFromSecond(s) == ListenersFrom(s, 2)

updateListeners(s) == ListenersFrom(s, 1)

(***************************************************************************)
(* The methods: each takes the state at the call and gives the state at    *)
(* the return                                                              *)
(***************************************************************************)
\* lines 44-58
getTypes(s, callback, errorHandler) ==
    IF callback # "function" THEN s
    ELSE ajax(s, Request("types", callback, errorHandler),
              "types", "GET", NoData)

\* the snapshot requested whether or not one is cached
getJSONAlwaysFetching(s, callback, errorHandler) ==
    IF callback # "function" THEN s
    ELSE ajax(s, Request("json", callback, errorHandler),
              "model.json", "GET", NoData)

\* lines 61-80
getJSON(s, callback, errorHandler) ==
    IF callback # "function" THEN s
    ELSE IF s.modelJSON # Null THEN Did(s, Callback(s.modelJSON))
    ELSE ajax(s, Request("json", callback, errorHandler),
              "model.json", "GET", NoData)

\* lines 83-104: line 88 calls getJSON with no arguments
getObject(s, pathname, callback, errorHandler) ==
    IF callback # "function" THEN s
    ELSE LET fetched == IF s.modelJSON = Null
                        THEN getJSON(s, "undefined", "undefined")
                        ELSE s
             obj == IF Len(pathname) > 0
                    THEN Walk(fetched.modelJSON, split(pathname), 1)
                    ELSE fetched.modelJSON
         IN  IF obj = Thrown THEN Did(fetched, Throw)
             ELSE Did(fetched, Callback(obj))

\* x || 1: zero replaced as well
CoordinateOrOne(x) == IF x.t # "number" \/ x.v = 0 THEN Num(1) ELSE x

\* lines 111-112
Coordinate(x) == IF x.t # "number" THEN Num(1) ELSE x

\* both caches cleared
addComponentClearingTypes(s, typepath, name, x, y) ==
    ajax([s EXCEPT !.modelJSON = Null, !.types = Null],
         Request("updateListeners", "undefined", "undefined"),
         "add", "POST",
         [type |-> typepath, name |-> name, x |-> Coordinate(x), y |-> Coordinate(y)])

\* lines 107-120
addComponent(s, typepath, name, x, y) ==
    ajax([s EXCEPT !.modelJSON = Null],
         Request("updateListeners", "undefined", "undefined"),
         "add", "POST",
         [type |-> typepath, name |-> name, x |-> Coordinate(x), y |-> Coordinate(y)])

\* lines 123-140
issueCommand(s, cmd, callback, errorHandler) ==
    ajax([s EXCEPT !.modelJSON = Null],
         Request("command", callback, errorHandler),
         "command", "POST", [command |-> cmd])

\* lines 143-153
getOutput(s, callback, errorHandler) ==
    ajax(s, Request("output", callback, errorHandler),
         "output", "GET", NoData)

\* lines 156-163
setFolder(s, folder) ==
    ajax(s, Request("updateListeners", "undefined", "undefined"),
         "folder", "POST", [folder |-> folder])

\* lines 166-171
getFolder(s) ==
    ajax(s, Request("folder", "undefined", "undefined"),
         "folder", "GET", NoData)

\* lines 174-185
getFiles(s, callback, errorHandler) ==
    IF callback # "function" THEN s
    ELSE ajax(s, Request("callback", callback, errorHandler),
              "files.json", "GET", NoData)

\* the request sent whatever the callback is
getFileUnguarded(s, filepath, callback, errorHandler) ==
    ajax(s, Request("callback", callback, errorHandler),
         "file", "GET", [file |-> filepath])

\* lines 188-200
getFile(s, filepath, callback, errorHandler) ==
    IF callback # "function" THEN s
    ELSE ajax(s, Request("callback", callback, errorHandler),
              "file", "GET", [file |-> filepath])

\* lines 203-211
setFile(s, filepath, contents, errorHandler) ==
    ajax(s, Request("updateListeners", "undefined", errorHandler),
         "file", "POST", [filename |-> filepath, contents |-> contents])

\* lines 214-221
createFolder(s, folderpath) ==
    ajax(s, Request("updateListeners", "undefined", "undefined"),
         "file", "POST", [filename |-> folderpath, isFolder |-> TRUE])

\* lines 226-227
Named(folderpath, name) ==
    IF folderpath # <<>> THEN folderpath \o <<"/">> \o name ELSE name

\* lines 224-231, from the prompt's answer on
newFile(s, folderpath, name) ==
    setFile(s, Named(folderpath, name), NewFileContents(Named(folderpath, name)), "undefined")

\* lines 234-240, from the prompt's answer on; createFolder takes one
\* parameter and ignores the second argument
newFolder(s, folderpath, name) == createFolder(s, Named(folderpath, name))

\* lines 243-246
uploadFile(s) == Did(s, Popup)

\* lines 249-257
removeFile(s, filepath) ==
    ajax(s, Request("updateListeners", "undefined", "undefined"),
         "remove", "POST", [file |-> filepath])

\* lines 260-267: line 266 names updateListeners and does not call it
\* the listeners notified at the call as well
importFileNotifying(s, filepath) ==
    updateListeners(issueCommand(s, ImportCommand(filepath), "undefined", "undefined"))

importFile(s, filepath) ==
    issueCommand(s, ImportCommand(filepath), "undefined", "undefined")

\* lines 270-286
execFile(s, filepath) ==
    ajax([s EXCEPT !.modelJSON = Null],
         Request("updateListeners", "undefined", "undefined"),
         "exec", "POST", [filename |-> ExecPath(filepath)])

\* lines 289-294
exit(s) ==
    ajax(s, Request("none", "undefined", "undefined"), "exit", "GET", NoData)

(***************************************************************************)
(* The handlers jQuery calls when the response of a request arrives        *)
(***************************************************************************)
\* lines 52-55
TypesSuccess(s, request, xml) ==
    Did([s EXCEPT !.types = xml], Callback(xml))

\* the snapshot stored and the caller never told
JSONSuccessSilent(s, request, json) == [s EXCEPT !.modelJSON = json]

\* lines 73-76
JSONSuccess(s, request, json) ==
    Did([s EXCEPT !.modelJSON = json], Callback(json))

\* the listeners notified before the caller's callback
CommandSuccessListenersFirst(s, request, txt) ==
    IF request.callback = "function" THEN Did(updateListeners(s), Callback(txt))
    ELSE updateListeners(s)

\* lines 132-137
CommandSuccess(s, request, txt) ==
    updateListeners(IF request.callback = "function" THEN Did(s, Callback(txt)) ELSE s)

\* lines 146-150
OutputSuccess(s, request, text) ==
    IF request.callback = "function" THEN Did(s, Callback(text)) ELSE s

\* the success option of a request
Success(s, request, data) ==
    CASE request.success = "types" -> TypesSuccess(s, request, data)
      [] request.success = "json" -> JSONSuccess(s, request, data)
      [] request.success = "updateListeners" -> updateListeners(s)
      [] request.success = "command" -> CommandSuccess(s, request, data)
      [] request.success = "output" -> OutputSuccess(s, request, data)
      [] request.success = "callback" -> Did(s, Callback(data))
      [] request.success = "folder" -> s
      [] request.success = "none" -> s

\* a failure that also notifies the listeners
ErrorNotifying(s, request) ==
    updateListeners(IF request.error = "function" THEN Did(s, ErrorHandler) ELSE s)

\* a failure that also drops both caches
ErrorInvalidating(s, request) ==
    IF request.error = "function"
    THEN Did([s EXCEPT !.modelJSON = Null, !.types = Null], ErrorHandler)
    ELSE s

\* the error option of a request
Error(s, request) ==
    IF request.error = "function" THEN Did(s, ErrorHandler) ELSE s

\* what the server can answer
Responses(request, snapshots) ==
    CASE request.success = "types" -> Catalogs
      [] request.success = "json" -> snapshots
      [] OTHER -> Texts

(***************************************************************************)
(* The state machine                                                       *)
(***************************************************************************)
\* what `last` says of a step: the handler, its arguments, and the caches
\* and registry length it started from
Step(op, args) ==
    [op |-> op, args |-> args, modelJSON |-> modelJSON, types |-> types,
     registered |-> Len(callbacks)]

NoArgs == [none |-> TRUE]

\* the methods that clear the model cache (lines 109, 125, 272; importFile
\* through issueCommand)
InvalidatingOps == {"addComponent", "issueCommand", "importFile", "execFile"}

\* History: a snapshot request that was in flight when a method cleared the
\* model cache carries the mark `outdated` from then on.  The mark changes
\* nothing the handlers do.
Outdate(request) ==
    IF request.success = "json"
    THEN [success |-> request.success, callback |-> request.callback,
          error |-> request.error, outdated |-> TRUE]
    ELSE request

IsOutdated(request) == "outdated" \in DOMAIN request

Unmarked(request) ==
    [success |-> request.success, callback |-> request.callback, error |-> request.error]

OutdateAll(requests) ==
    [ m \in { Outdate(r) : r \in BagToSet(requests) } |->
        CopiesIn(m, requests)
            + (IF IsOutdated(m) THEN CopiesIn(Unmarked(m), requests) ELSE 0) ]

\* the handler `step` runs from the current state and returns in state s,
\* with at most `most` requests in flight
RunWithin(step, s, most) ==
    /\ BagCardinality(s.pending) <= most
    /\ callbacks' = s.callbacks
    /\ modelJSON' = s.modelJSON
    /\ types' = s.types
    /\ pending' = IF step.op \in InvalidatingOps THEN OutdateAll(s.pending) ELSE s.pending
    /\ trace' = s.trace
    /\ last' = step

Run(step, s) == RunWithin(step, s, MaxPending)

\* lines 19-22
Init ==
    /\ callbacks = <<>>
    /\ modelJSON = Null
    /\ types = Null
    /\ pending = EmptyBag
    /\ trace = <<>>
    /\ last = [op |-> "new", args |-> NoArgs, modelJSON |-> Null, types |-> Null,
               registered |-> 0]

AddListener ==
    \E callback \in ListenerKinds :
        /\ Len(callbacks) < MaxListeners
        /\ Run(Step("addListener", [callback |-> callback]), addListener(Here, callback))

UpdateListeners == Run(Step("updateListeners", NoArgs), updateListeners(Here))

GetTypes ==
    \E callback \in FnKinds, errorHandler \in FnKinds :
        Run(Step("getTypes", [callback |-> callback, errorHandler |-> errorHandler]),
            getTypes(Here, callback, errorHandler))

GetJSON ==
    \E callback \in FnKinds, errorHandler \in FnKinds :
        Run(Step("getJSON", [callback |-> callback, errorHandler |-> errorHandler]),
            getJSON(Here, callback, errorHandler))

GetObjectOf(pathnames) ==
    \E pathname \in pathnames, callback \in FnKinds :
        Run(Step("getObject", [pathname |-> pathname, callback |-> callback]),
            getObject(Here, pathname, callback, "undefined"))

GetObject == GetObjectOf(SomePathnames)

AddComponent ==
    \E x \in Coordinates, y \in Coordinates :
        Run(Step("addComponent", [x |-> x, y |-> y]),
            addComponent(Here, SomeType, SomeName, x, y))

IssueCommand ==
    \E callback \in FnKinds, errorHandler \in FnKinds :
        Run(Step("issueCommand", [callback |-> callback, errorHandler |-> errorHandler]),
            issueCommand(Here, SomeCommand, callback, errorHandler))

GetOutput ==
    \E callback \in FnKinds, errorHandler \in FnKinds :
        Run(Step("getOutput", [callback |-> callback, errorHandler |-> errorHandler]),
            getOutput(Here, callback, errorHandler))

SetFolder == Run(Step("setFolder", NoArgs), setFolder(Here, SomeFolder))

GetFolder == Run(Step("getFolder", NoArgs), getFolder(Here))

GetFiles ==
    \E callback \in FnKinds, errorHandler \in FnKinds :
        Run(Step("getFiles", [callback |-> callback, errorHandler |-> errorHandler]),
            getFiles(Here, callback, errorHandler))

GetFile ==
    \E callback \in FnKinds, errorHandler \in FnKinds :
        Run(Step("getFile", [callback |-> callback, errorHandler |-> errorHandler]),
            getFile(Here, SomeName, callback, errorHandler))

SetFile ==
    \E errorHandler \in FnKinds :
        Run(Step("setFile", [errorHandler |-> errorHandler]),
            setFile(Here, SomeName, SomeContents, errorHandler))

CreateFolder == Run(Step("createFolder", NoArgs), createFolder(Here, SomeFolder))

NewFile ==
    \E folderpath \in {<<>>, SomeFolder} :
        Run(Step("newFile", [folderpath |-> folderpath]), newFile(Here, folderpath, SomeName))

NewFolder ==
    \E folderpath \in {<<>>, SomeFolder} :
        Run(Step("newFolder", [folderpath |-> folderpath]),
            newFolder(Here, folderpath, SomeName))

UploadFile == Run(Step("uploadFile", NoArgs), uploadFile(Here))

RemoveFile == Run(Step("removeFile", NoArgs), removeFile(Here, SomeName))

ImportFileOf(paths) ==
    \E filepath \in paths :
        Run(Step("importFile", [filepath |-> filepath]), importFile(Here, filepath))

ImportFile == ImportFileOf(SomePaths)

ExecFileOf(paths) ==
    \E filepath \in paths :
        Run(Step("execFile", [filepath |-> filepath]), execFile(Here, filepath))

ExecFile == ExecFileOf(SomePaths)

Exit == Run(Step("exit", NoArgs), exit(Here))

\* a request leaves `pending` when its response arrives
Answered(s, request) == [s EXCEPT !.pending = @ (-) SetToBag({request})]

\* responses arrive in any order
SucceedWith(snapshots) ==
    \E request \in BagToSet(pending) :
        \E data \in Responses(request, snapshots) :
            Run(Step("success", [request |-> request, data |-> data]),
                Success(Answered(Here, request), request, data))

Succeed == SucceedWith(SomeSnapshots)

Fail ==
    \E request \in BagToSet(pending) :
        Run(Step("error", [request |-> request]),
            Error(Answered(Here, request), request))

Next ==
    \/ AddListener \/ UpdateListeners
    \/ GetTypes \/ GetJSON \/ GetObject
    \/ AddComponent \/ IssueCommand \/ GetOutput
    \/ SetFolder \/ GetFolder
    \/ GetFiles \/ GetFile \/ SetFile \/ CreateFolder
    \/ NewFile \/ NewFolder \/ UploadFile \/ RemoveFile
    \/ ImportFile \/ ExecFile \/ Exit
    \/ Succeed \/ Fail

Spec == Init /\ [][Next]_vars

(***************************************************************************)
(* The walk of getObject, over every pathname and every snapshot within    *)
(* the bounds                                                              *)
(***************************************************************************)
GetObjectAny == GetObjectOf(Pathnames)

SucceedAny == SucceedWith(Snapshots)

NextObject == GetObjectAny \/ GetJSON \/ SucceedAny \/ Fail

SpecObject == Init /\ [][NextObject]_vars

(***************************************************************************)
(* The path conversions of importFile and execFile, over every file path   *)
(* within the bounds; each call is made with no request outstanding        *)
(***************************************************************************)
ImportFileAny == pending = EmptyBag /\ ImportFileOf(Paths)

ExecFileAny == pending = EmptyBag /\ ExecFileOf(Paths)

NextPath == ImportFileAny \/ ExecFileAny \/ GetJSON \/ Succeed \/ Fail

SpecPath == Init /\ [][NextPath]_vars

(***************************************************************************)
(* The listener registry with up to MaxRegistry entries, notified by       *)
(* direct calls and by the responses of setFile                            *)
(***************************************************************************)
AddListenerMore ==
    \E callback \in ListenerKinds :
        /\ Len(callbacks) < MaxRegistry
        /\ Run(Step("addListener", [callback |-> callback]), addListener(Here, callback))

NextListeners == AddListenerMore \/ UpdateListeners \/ SetFile \/ Succeed \/ Fail

SpecListeners == Init /\ [][NextListeners]_vars

(***************************************************************************)
(* The model cache with up to MaxRacing requests in flight: snapshot       *)
(* requests racing with the methods that clear the cache                   *)
(***************************************************************************)
RaceGetJSON ==
    \E callback \in FnKinds, errorHandler \in FnKinds :
        RunWithin(Step("getJSON", [callback |-> callback, errorHandler |-> errorHandler]),
                  getJSON(Here, callback, errorHandler), MaxRacing)

RaceAddComponent ==
    \E x \in Coordinates, y \in Coordinates :
        RunWithin(Step("addComponent", [x |-> x, y |-> y]),
                  addComponent(Here, SomeType, SomeName, x, y), MaxRacing)

RaceIssueCommand ==
    \E callback \in FnKinds, errorHandler \in FnKinds :
        RunWithin(Step("issueCommand", [callback |-> callback, errorHandler |-> errorHandler]),
                  issueCommand(Here, SomeCommand, callback, errorHandler), MaxRacing)

RaceExecFile ==
    \E filepath \in SomePaths :
        RunWithin(Step("execFile", [filepath |-> filepath]), execFile(Here, filepath),
                  MaxRacing)

RaceSucceed ==
    \E request \in BagToSet(pending) :
        \E data \in Responses(request, SomeSnapshots) :
            RunWithin(Step("success", [request |-> request, data |-> data]),
                      Success(Answered(Here, request), request, data), MaxRacing)

RaceFail ==
    \E request \in BagToSet(pending) :
        RunWithin(Step("error", [request |-> request]),
                  Error(Answered(Here, request), request), MaxRacing)

NextRace ==
    \/ RaceGetJSON \/ RaceAddComponent \/ RaceIssueCommand \/ RaceExecFile
    \/ RaceSucceed \/ RaceFail

SpecRace == Init /\ [][NextRace]_vars

(***************************************************************************)
(* Reading the trace of the last step                                      *)
(***************************************************************************)
IsAjax(e) == e.ev = "ajax"
IsCallback(e) == e.ev = "callback"
IsListenerCall(e) == e.ev = "listener"

Sent == SelectSeq(trace, IsAjax)
Notified == SelectSeq(trace, IsListenerCall)

\* how many times the last step called the listener registered at i
TimesNotified(i) == Cardinality({k \in 1..Len(Notified) : Notified[k].index = i})

\* the last step called every function of the registry exactly once, with
\* no arguments, in registration order, and nothing that is not a function
NotifiedAllOnceInOrder ==
    /\ \A i \in 1..Len(callbacks) :
           TimesNotified(i) = (IF IsFunction(callbacks[i]) THEN 1 ELSE 0)
    /\ \A k \in 1..Len(Notified) :
           /\ Notified[k].index \in 1..Len(callbacks)
           /\ Notified[k].args = <<>>
    /\ \A j, k \in 1..Len(Notified) : j < k => Notified[j].index < Notified[k].index

(***************************************************************************)
(* C1  After addComponent, issueCommand, setFile, removeFile, execFile,    *)
(* createFolder or setFolder has been called the model cache is absent,    *)
(* so that the next getJSON sends a new 'model.json' request.              *)
(***************************************************************************)
MutatingOps ==
    {"addComponent", "issueCommand", "setFile", "removeFile", "execFile",
     "createFolder", "setFolder"}

\* C1: right after a mutating operation the model cache is absent
C1_CacheAbsentAfterMutation == last.op \in MutatingOps => modelJSON = Null

(***************************************************************************)
(* C2  A call of updateListeners invokes every registered function exactly *)
(* once per registration, with no arguments, in registration order.        *)
(***************************************************************************)
C2_EachListenerOnceInOrder == last.op = "updateListeners" => NotifiedAllOnceInOrder

C2_Witness ==
    /\ last.op = "updateListeners"
    /\ Len(callbacks) = 2
    /\ IsFunction(callbacks[1]) /\ IsFunction(callbacks[2])
    /\ last.registered = 2
    /\ Len(Notified) = 2

(***************************************************************************)
(* C3  getObject called with a function callback while the model cache is  *)
(* absent sends a 'model.json' request (whose response then feeds the      *)
(* callback).                                                              *)
(***************************************************************************)
C3_GetObjectFetchesWhenAbsent ==
    (last.op = "getObject" /\ last.args.callback = "function" /\ last.modelJSON = Null)
        => /\ \E k \in 1..Len(Sent) : Sent[k].url = "model.json"
           /\ \E request \in BagToSet(pending) : request.success = "json"

(***************************************************************************)
(* C4  getTypes called with a function callback when the type catalog is   *)
(* already cached sends no request and hands the cached catalog to the     *)
(* callback.                                                               *)
(***************************************************************************)
C4_GetTypesUsesCache ==
    (last.op = "getTypes" /\ last.args.callback = "function" /\ last.types # Null)
        => /\ Sent = <<>>
           /\ trace = <<Callback(last.types)>>

(***************************************************************************)
(* C5  Listeners are notified only by the success response of a request    *)
(* whose success handler notifies them (or by a direct updateListeners     *)
(* call): never by the call of an operation, never while its request is    *)
(* in flight, never by a failure.                                          *)
(***************************************************************************)
C5_NotifyOnlyOnSuccess ==
    Notified # <<>> =>
        \/ last.op = "updateListeners"
        \/ /\ last.op = "success"
           /\ last.args.request.success \in {"updateListeners", "command"}

C5_Witness ==
    /\ last.op = "success"
    /\ last.args.request.success = "updateListeners"
    /\ Len(Notified) = 2

(***************************************************************************)
(* C6  With the model cache present, getObject walks the dot-separated     *)
(* segments of the pathname from the snapshot root, at each segment taking *)
(* the key from the current node when the node has it and otherwise from   *)
(* the node's "py/state" sub-key, and invokes the callback exactly once    *)
(* with the value reached (the whole snapshot for the empty pathname).     *)
(***************************************************************************)
\* the key a segment names, if it names one
SegmentKeys(segment) == IF Len(segment) = 1 THEN {segment[1]} ELSE {}

\* the value the claim reaches from `node` by one segment: a set with that
\* value, or the empty set when neither place has the key
Below(node, segment) ==
    IF ~ IsObject(node) THEN {}
    ELSE IF SegmentKeys(segment) \cap DOMAIN node # {}
         THEN { node[key] : key \in SegmentKeys(segment) }
         ELSE IF StateKey \in DOMAIN node /\ IsObject(node[StateKey])
              THEN { node[StateKey][key] : key \in SegmentKeys(segment) \cap DOMAIN node[StateKey] }
              ELSE {}

RECURSIVE ReachedFrom(_, _)
ReachedFrom(nodes, segments) ==
    IF segments = <<>> THEN nodes
    ELSE ReachedFrom(UNION { Below(node, Head(segments)) : node \in nodes }, Tail(segments))

Reached(snapshot, pathname) ==
    IF pathname = <<>> THEN {snapshot} ELSE ReachedFrom({snapshot}, split(pathname))

\* C6: whenever the walk the claim describes reaches a value, getObject calls
\* the callback once, with that value, and does nothing else
C6_GetObjectWalksWithStateFallback ==
    (last.op = "getObject" /\ last.args.callback = "function" /\ last.modelJSON # Null)
        => \A value \in Reached(last.modelJSON, last.args.pathname) :
               trace = <<Callback(value)>>

\* the second segment is found under "py/state" only
C6_Witness ==
    /\ last.op = "getObject" /\ last.args.callback = "function"
    /\ last.modelJSON # Null
    /\ last.args.pathname = <<"a", ".", "a">>
    /\ "a" \in DOMAIN last.modelJSON
    /\ IsObject(last.modelJSON["a"])
    /\ "a" \notin DOMAIN last.modelJSON["a"]
    /\ Reached(last.modelJSON, last.args.pathname) # {}
    /\ Len(trace) = 1 /\ trace[1].ev = "callback"

(***************************************************************************)
(* C7  For a file path of name segments joined by '/' or '\' and ending in *)
(* '.py', importFile issues the command "from <segments joined by '.'>     *)
(* import *": the trailing extension is dropped and nothing else.          *)
(***************************************************************************)
IsSeparator(c) == c \in {"/", "\\"}

\* name segments, none empty, joined by single separators
IsSegments(s) ==
    /\ s # <<>>
    /\ ~ IsSeparator(s[1]) /\ ~ IsSeparator(s[Len(s)])
    /\ \A i \in 1..(Len(s) - 1) : ~ (IsSeparator(s[i]) /\ IsSeparator(s[i + 1]))

Stem(filepath) == SubSeq(filepath, 1, Len(filepath) - 3)

IsPythonPath(filepath) ==
    /\ Len(filepath) > 3
    /\ SubSeq(filepath, Len(filepath) - 2, Len(filepath)) = <<".", "p", "y">>
    /\ IsSegments(Stem(filepath))

Dotted(s) == [i \in 1..Len(s) |-> IF IsSeparator(s[i]) THEN "." ELSE s[i]]

\* C7: importFile of a well-formed path sends the one command "from <dotted
\* stem> import *"
C7_ImportDropsOnlyTheExtension ==
    (last.op = "importFile" /\ IsPythonPath(last.args.filepath))
        => /\ Len(Sent) = 1
           /\ Sent[1].url = "command"
           /\ Sent[1].data.command =
                  <<"f", "r", "o", "m", " ">> \o Dotted(Stem(last.args.filepath))
                      \o <<" ", "i", "m", "p", "o", "r", "t", " ", "*">>

(***************************************************************************)
(* C8  execFile clears the model cache and sends one 'exec' request whose  *)
(* filename is the path with every backslash turned into a forward slash   *)
(* and then exactly one leading '/' removed if there is one.               *)
(***************************************************************************)
Slashed(c) == IF c = "\\" THEN "/" ELSE c

\* how many characters execFile is to drop from the front of the path
Dropped(filepath) == IF filepath # <<>> /\ IsSeparator(filepath[1]) THEN 1 ELSE 0

\* C8: execFile leaves the cache absent and sends the normalised path
C8_ExecFileSendsRelativePath ==
    last.op = "execFile"
        => /\ modelJSON = Null
           /\ Len(trace) = 1 /\ Len(Sent) = 1
           /\ Sent[1].url = "exec"
           /\ LET filepath == last.args.filepath
                  filename == Sent[1].data.filename
              IN  /\ Len(filename) = Len(filepath) - Dropped(filepath)
                  /\ \A i \in 1..Len(filename) :
                         filename[i] = Slashed(filepath[i + Dropped(filepath)])

\* a cached snapshot is dropped, and of two leading separators one is kept
C8_Witness ==
    /\ last.op = "execFile"
    /\ last.modelJSON # Null
    /\ modelJSON = Null
    /\ last.args.filepath = <<"\\", "\\", "p">>
    /\ Len(Sent) = 1
    /\ Sent[1].data.filename = <<"/", "p">>

(***************************************************************************)
(* C9  When an issueCommand request succeeds, the caller's callback (when  *)
(* it is a function) is invoked exactly once, with the response text, then *)
(* every listener is notified exactly once; without a function callback    *)
(* the listeners are still notified once.                                  *)
(***************************************************************************)
C9_CallbackThenListeners ==
    (last.op = "success" /\ last.args.request.success = "command")
        => /\ NotifiedAllOnceInOrder
           /\ Sent = <<>>
           /\ IF last.args.request.callback = "function"
              THEN /\ trace # <<>>
                   /\ trace[1] = Callback(last.args.data)
                   /\ \A k \in 2..Len(trace) : ~ IsCallback(trace[k])
              ELSE \A k \in 1..Len(trace) : ~ IsCallback(trace[k])

C9_Witness ==
    /\ last.op = "success" /\ last.args.request.success = "command"
    /\ last.args.request.callback = "function"
    /\ Len(trace) = 3
    /\ IsCallback(trace[1]) /\ IsListenerCall(trace[2]) /\ IsListenerCall(trace[3])

(***************************************************************************)
(* C10  When a request that carries an error handler fails, the handler is *)
(* invoked exactly once and nothing else happens: no success callback, no  *)
(* listener, no new request, and both caches stay as they were.            *)
(***************************************************************************)
C10_FailureCallsErrorHandlerOnly ==
    (last.op = "error" /\ last.args.request.error = "function")
        => /\ trace = <<ErrorHandler>>
           /\ modelJSON = last.modelJSON
           /\ types = last.types
           /\ Len(callbacks) = last.registered
           /\ Sent = <<>>

C10_Witness ==
    /\ last.op = "error" /\ last.args.request.error = "function"
    /\ last.args.request.success = "json"
    /\ types # Null
    /\ Len(callbacks) = 2 /\ IsFunction(callbacks[1])
    /\ trace = <<ErrorHandler>>

(***************************************************************************)
(* C11  During updateListeners an entry that is not a function is skipped  *)
(* and reported as an error, and every function entry before or after it   *)
(* is still invoked exactly once, in registration order.                   *)
(***************************************************************************)
C11_NonFunctionsSkipped ==
    last.op = "updateListeners"
        => /\ Len(trace) = Len(callbacks)
           /\ \A k \in 1..Len(trace) :
                  trace[k] = (IF IsFunction(callbacks[k]) THEN Listener(k) ELSE LogError)

C11_Witness ==
    /\ last.op = "updateListeners"
    /\ callbacks = <<"fn", "notfn", "fn">>
    /\ trace = <<Listener(1), LogError, Listener(3)>>

(***************************************************************************)
(* C12  getTypes, getJSON, getObject, getFiles and getFile called with a   *)
(* callback that is not a function return at once: no request is sent, no  *)
(* callback or listener is invoked, and the model cache, the type catalog  *)
(* and the registry are unchanged.                                         *)
(***************************************************************************)
ReadingOps == {"getTypes", "getJSON", "getObject", "getFiles", "getFile"}

\* C12: such a call does nothing
C12_NoCallbackNoEffect ==
    (last.op \in ReadingOps /\ last.args.callback # "function")
        => /\ trace = <<>>
           /\ modelJSON = last.modelJSON
           /\ types = last.types
           /\ Len(callbacks) = last.registered

C12_Witness ==
    /\ last.op = "getFile" /\ last.args.callback # "function"
    /\ modelJSON # Null /\ types # Null
    /\ Len(callbacks) = 2
    /\ pending = EmptyBag
    /\ trace = <<>>

(***************************************************************************)
(* C13  When two operations that clear the model cache have been issued    *)
(* and neither has been answered, the cache is absent after each of them,  *)
(* and a getJSON call made while it is still absent sends exactly one      *)
(* 'model.json' request, whose response is delivered to its callback.      *)
(***************************************************************************)
\* how many requests in flight are not snapshot requests: under SpecRace,
\* the requests of the methods that clear the cache
Invalidations ==
    LET others == { r \in BagToSet(pending) : r.success # "json" }
    IN  IF others = {} THEN 0
        ELSE BagCardinality([ r \in others |-> CopiesIn(r, pending) ])

C13_OneFetchAfterTwoInvalidations ==
    /\ last.op \in {"addComponent", "issueCommand", "execFile"} => modelJSON = Null
    /\ (last.op = "getJSON" /\ last.args.callback = "function"
            /\ last.modelJSON = Null /\ Invalidations >= 2)
          => /\ trace = <<Ajax("model.json", "GET", NoData)>>
             /\ BagIn(Request("json", "function", last.args.errorHandler), pending)
    /\ (last.op = "success" /\ last.args.request.success = "json")
          => trace = <<Callback(last.args.data)>>

C13_Witness ==
    /\ last.op = "getJSON" /\ last.args.callback = "function"
    /\ Invalidations = 2
    /\ BagCardinality(pending) = 3
    /\ Len(Sent) = 1

(***************************************************************************)
(* C14  Both caches start absent, and once a getTypes response has set the *)
(* type catalog no step sets it back to absent; addComponent, issueCommand *)
(* and execFile leave it as it is.                                         *)
(***************************************************************************)
C14_TypeCatalogNeverCleared ==
    /\ last.op = "new" => (modelJSON = Null /\ types = Null)
    /\ last.types # Null => types # Null
    /\ last.op \in {"addComponent", "issueCommand", "execFile"} => types = last.types

C14_Witness ==
    /\ last.op = "addComponent"
    /\ last.types # Null /\ types = last.types
    /\ last.modelJSON # Null /\ modelJSON = Null

(***************************************************************************)
(* C15  addComponent sends one 'add' request with the given type and name, *)
(* x when x is a number and 1 otherwise, y when y is a number and 1        *)
(* otherwise, each coordinate on its own.                                  *)
(***************************************************************************)
NumberOrOne(v) == IF v.t = "number" THEN v ELSE Num(1)

\* C15: the request addComponent sends
C15_AddComponentDefaultsCoordinates ==
    last.op = "addComponent"
        => trace = << Ajax("add", "POST",
                           [type |-> SomeType, name |-> SomeName,
                            x |-> NumberOrOne(last.args.x),
                            y |-> NumberOrOne(last.args.y)]) >>

\* a zero is a number and is kept, while the other coordinate is defaulted
C15_Witness ==
    /\ last.op = "addComponent"
    /\ last.args.x = Num(0) /\ last.args.y = NotNum
    /\ Len(Sent) = 1
    /\ Sent[1].data.x = Num(0) /\ Sent[1].data.y = Num(1)

(***************************************************************************)
(* C16  The listener registry is append-only: what it held before a step   *)
(* is a prefix of what it holds after, each addListener call appends its   *)
(* argument (a duplicate or a non-function too) at the end, and the        *)
(* registry grows in no step but an addListener call or a notification in  *)
(* which a listener itself calls addListener.                              *)
(***************************************************************************)
C16_RegistryAppendOnly ==
    [][ /\ Len(callbacks) <= Len(callbacks')
        /\ SubSeq(callbacks', 1, Len(callbacks)) = callbacks
        /\ last'.op = "addListener" => callbacks' = Append(callbacks, last'.args.callback)
        /\ callbacks' # callbacks =>
               \/ last'.op = "addListener"
               \/ \E k \in 1..Len(trace') :
                      /\ trace'[k].ev = "listener"
                      /\ callbacks'[trace'[k].index] = "adder" ]_vars

C16_Witness ==
    /\ last.op = "addListener"
    /\ callbacks = <<"fn", "fn", "notfn">>

(***************************************************************************)
(* C17  getJSON with a function callback: when the model cache is present  *)
(* the callback is invoked at once, exactly once, with the cached snapshot *)
(* and no request is sent; when it is absent exactly one 'model.json'      *)
(* request is sent, and its success stores the response as the cache and   *)
(* invokes the callback with it.                                           *)
(***************************************************************************)
C17_GetJSONCachesSnapshot ==
    /\ (last.op = "getJSON" /\ last.args.callback = "function")
          => /\ modelJSON = last.modelJSON
             /\ IF last.modelJSON # Null
                THEN trace = <<Callback(last.modelJSON)>>
                ELSE trace = <<Ajax("model.json", "GET", NoData)>>
    /\ (last.op = "success" /\ last.args.request.success = "json")
          => /\ modelJSON = last.args.data
             /\ trace = <<Callback(modelJSON)>>

C17_Witness ==
    /\ last.op = "getJSON" /\ last.args.callback = "function"
    /\ last.modelJSON # Null
    /\ pending = EmptyBag
    /\ trace = <<Callback(modelJSON)>>

(***************************************************************************)
(* C18  A response to a snapshot request that was issued before a          *)
(* cache-invalidating operation (addComponent, issueCommand, execFile)     *)
(* leaves the model cache as it was: it never repopulates the cache that   *)
(* operation cleared, and never replaces a newer snapshot.                 *)
(***************************************************************************)
C18_OutdatedResponseNotCached ==
    (last.op = "success" /\ IsOutdated(last.args.request))
        => modelJSON = last.modelJSON

(***************************************************************************)
(* C19  importFile clears the model cache and sends exactly one 'command'  *)
(* request without notifying any listener at the call; when that request   *)
(* succeeds every listener is notified exactly once, and when it fails     *)
(* none is.                                                                *)
(***************************************************************************)
IsImportRequest(request) ==
    /\ request.success = "command"
    /\ request.callback = "undefined"
    /\ request.error = "undefined"

\* C19: importFile at the call, at the success and at the failure of its request
C19_ImportNotifiesOnSuccessOnly ==
    /\ last.op = "importFile"
          => /\ modelJSON = Null
             /\ Len(trace) = 1
             /\ trace[1].ev = "ajax" /\ trace[1].url = "command" /\ trace[1].type = "POST"
             /\ BagIn(Request("command", "undefined", "undefined"), pending)
    /\ (last.op = "success" /\ IsImportRequest(last.args.request))
          => /\ NotifiedAllOnceInOrder
             /\ Sent = <<>>
    /\ (last.op = "error" /\ IsImportRequest(last.args.request))
          => trace = <<>>

C19_Witness ==
    /\ last.op = "importFile"
    /\ callbacks = <<"fn", "fn">>
    /\ last.modelJSON # Null /\ modelJSON = Null
    /\ Len(Sent) = 1 /\ Notified = <<>>

(***************************************************************************)
(* C20  A notification pass invokes only the listeners that were           *)
(* registered when it started: a listener added during the pass is not     *)
(* invoked in that pass.                                                   *)
(***************************************************************************)
C20_PassNotifiesOnlyRegistered ==
    \A k \in 1..Len(Notified) : Notified[k].index <= last.registered

====
